---- MODULE Spec2Model ----
(***************************************************************************)
(* Model of react-auto-time-theme (arsalanshaikhh/auto-react-theme).       *)
(*                                                                         *)
(* Part 1: src/src/timeUtils.ts, the time-boundary calculator.             *)
(*   Strings are sequences of one-character strings, so that trim, split   *)
(*   and parseInt are computed character by character as JavaScript does.  *)
(*   The host clock (new Date()) is the variable clock; each function that *)
(*   reads it through getCurrentMinutes() takes the value read as its last *)
(*   parameter.                                                            *)
(*                                                                         *)
(* Part 2: src/src/AutoThemeProvider.tsx, the provider component and the   *)
(*   localStorage helpers.  A render captures the state and the merged     *)
(*   configuration in a closure (view); timer callbacks and the visibility *)
(*   listener keep the closure of the render that created them.  setState  *)
(*   takes effect on state at once and asks for a render; the render and   *)
(*   its passive effects are separate steps, so that timers, events and    *)
(*   calls can fall between them.                                          *)
(***************************************************************************)
EXTENDS Integers, Sequences, FiniteSets, TLC

VARIABLES
    lightStart,   \* config.lightStart handed to the time functions (string)
    darkStart,    \* config.darkStart handed to the time functions (string)
    clock,        \* minutes since local midnight the host clock shows
    time,         \* the argument of a direct timeToMinutes call (string)
    call,         \* the time function that was called last ("none" before any)
    ret,          \* what that call did: [thrown, error, value]; for the
                  \* provider, the exception a step let escape, if any
    config,       \* the other props: [defaultMode, storageKey, applyTo]
    storage,      \* window.localStorage: key -> stored string or Null
    storageStatus,\* "ok", "absent" (no window) or "throws" (every access throws)
    mounted,      \* the provider is mounted
    state,        \* useState value: [mode, theme]
    view,         \* closure of the latest render: [mode, theme, lightStart, darkStart]
    needRender,   \* state or props changed since the latest render
    effectsPending, \* the latest render's passive effects have not run yet
    cleanup,      \* the listener the last effect run registered (None before)
    timeoutRef,   \* timeoutRef.current: a timer id, 0 for null
    timers,       \* pending setTimeout timers: [id, closure, target, due]
    listeners,    \* registered visibilitychange handlers (their closures)
    dom,          \* data-theme attribute of <html> and <body>
    notified,     \* onThemeChange invocations made by the last step
    lastSelected  \* the mode of the last setMode call ("none" before any)

tvars == <<lightStart, darkStart, clock, time, call, ret>>

pvars == <<config, storage, storageStatus, mounted, state, view, needRender,
           effectsPending, cleanup, timeoutRef, timers, listeners,
           dom, notified, lastSelected>>

vars == <<lightStart, darkStart, clock, time, call, ret, config, storage,
          storageStatus, mounted, state, view, needRender, effectsPending,
          cleanup, timeoutRef, timers, listeners, dom, notified,
          lastSelected>>

----------------------------------------------------------------------------
(* Program constants *)

MinutesPerDay == 1440

MsPerMinute == 60000

MaxHours == 23

MaxMinutes == 59

DEFAULT_LIGHT_START == <<"0", "7", ":", "0", "0">>

DEFAULT_DARK_START == <<"2", "2", ":", "0", "0">>

DEFAULT_STORAGE_KEY == "auto-theme-mode"

\* the key isStorageAvailable writes and removes
testKey == "__storage_test__"

\* Math.min cap of scheduleNextCheck: 24 * 60 * 60 * 1000
MaxDelayMs == 86400000

----------------------------------------------------------------------------
(* Bounds of the model *)

\* longest string handed to a direct timeToMinutes call
MaxTimeLen == 5

\* minutes next to midnight on either side that the configuration and the
\* clock are drawn from (besides ExampleMinutes)
MaxEdge == 1

\* the characters the strings of a direct timeToMinutes call are made of
Alphabet == {"0", "2", "6", ":", " ", "x", ".", "-"}

\* minutes the documentation's examples use
ExampleMinutes == {30, 420, 500, 800, 1320}

\* timer ids setTimeout may hand out while others are pending
MaxTimers == 3

\* a configuration string the parser rejects (hours out of range)
InvalidTime == <<"2", "4", ":", "0", "0">>

TimeInputs == UNION {[1..n -> Alphabet] : n \in 0..MaxTimeLen}

MinuteInputs ==
    (0..MaxEdge) \cup ((MinutesPerDay - 1 - MaxEdge)..(MinutesPerDay - 1))
        \cup ExampleMinutes

----------------------------------------------------------------------------
(* JavaScript strings and numbers *)

WhiteSpace == {" "}

DigitChars == <<"0", "1", "2", "3", "4", "5", "6", "7", "8", "9">>

IsDigit(c) == \E i \in 1..10 : DigitChars[i] = c

DigitValue(c) == (CHOOSE i \in 1..10 : DigitChars[i] = c) - 1

\* two-digit "HH:MM" text of a minute of the day (how configurations are written)
TimeString(m) ==
    LET h == m \div 60
        mm == m % 60
    IN  <<DigitChars[(h \div 10) + 1], DigitChars[(h % 10) + 1], ":",
          DigitChars[(mm \div 10) + 1], DigitChars[(mm % 10) + 1]>>

ConfigInputs == {TimeString(m) : m \in MinuteInputs} \cup {InvalidTime}

\* const x = v; F(x): the value v is computed once and then used by F
Bind(F(_), v) == CHOOSE r \in {F(x) : x \in {v}} : TRUE

Bind2(F(_, _), v, w) == CHOOSE r \in {F(x, y) : x \in {v}, y \in {w}} : TRUE

LeadingSpaces(s) ==
    CHOOSE n \in 0..Len(s) :
        /\ \A i \in 1..n : s[i] \in WhiteSpace
        /\ (n = Len(s) \/ s[n + 1] \notin WhiteSpace)

TrailingSpaces(s) ==
    CHOOSE n \in 0..Len(s) :
        /\ \A i \in (Len(s) - n + 1)..Len(s) : s[i] \in WhiteSpace
        /\ (n = Len(s) \/ s[Len(s) - n] \notin WhiteSpace)

TrimStart(s) == SubSeq(s, LeadingSpaces(s) + 1, Len(s))

\* String.prototype.trim
trim(s) ==
    LET trimEnd(t) == SubSeq(t, 1, Len(t) - TrailingSpaces(t))
    IN  Bind(trimEnd, TrimStart(s))

\* String.prototype.split(sep): the pieces between the separators
RECURSIVE split(_, _)
split(s, sep) ==
    IF \A i \in 1..Len(s) : s[i] # sep
    THEN <<s>>
    ELSE LET i == CHOOSE k \in 1..Len(s) :
                      s[k] = sep /\ \A j \in 1..(k - 1) : s[j] # sep
         IN  <<SubSeq(s, 1, i - 1)>> \o split(SubSeq(s, i + 1, Len(s)), sep)

DigitPrefixLen(s) ==
    CHOOSE n \in 0..Len(s) :
        /\ \A i \in 1..n : IsDigit(s[i])
        /\ (n = Len(s) \/ ~IsDigit(s[n + 1]))

RECURSIVE DigitsValue(_)
DigitsValue(s) ==
    IF s = <<>>
    THEN 0
    ELSE 10 * DigitsValue(SubSeq(s, 1, Len(s) - 1)) + DigitValue(s[Len(s)])

NaN == [nan |-> TRUE, n |-> 0]

Num(n) == [nan |-> FALSE, n |-> n]

isNaN(x) == x.nan

\* parseInt(string, 10): leading white space skipped, an optional sign, then
\* the longest run of decimal digits; whatever follows is ignored; NaN when
\* there is no digit
parseInt(string) ==
    LET digits(R, sign) ==
            LET value(n) ==
                    IF n = 0 THEN NaN
                    ELSE Num(sign * DigitsValue(SubSeq(R, 1, n)))
            IN  Bind(value, DigitPrefixLen(R))
        signed(S) ==
            IF Len(S) > 0 /\ S[1] \in {"+", "-"}
            THEN Bind2(digits, Tail(S), IF S[1] = "-" THEN -1 ELSE 1)
            ELSE Bind2(digits, S, 1)
    IN  Bind(signed, TrimStart(string))

----------------------------------------------------------------------------
(* Results of a call *)

Return(v) == [thrown |-> FALSE, error |-> "", value |-> v]

Throw(e) == [thrown |-> TRUE, error |-> e, value |-> 0]

NoResult == [thrown |-> FALSE, error |-> "", value |-> 0]

----------------------------------------------------------------------------
(* src/src/timeUtils.ts *)

\* timeToMinutes with the minute check off by one (minutes > 60)
timeToMinutes_Minutes60(t) ==
    LET convert(hours, minutes) ==
            IF isNaN(hours) \/ isNaN(minutes)
            THEN Throw("Invalid time values")
            ELSE IF hours.n < 0 \/ hours.n > MaxHours
            THEN Throw("Invalid hour value")
            ELSE IF minutes.n < 0 \/ minutes.n > MaxMinutes + 1
            THEN Throw("Invalid minute value")
            ELSE Return(hours.n * 60 + minutes.n)
        fromParts(parts) ==
            IF Len(parts) # 2
            THEN Throw("Invalid time format")
            ELSE Bind2(convert, parseInt(parts[1]), parseInt(parts[2]))
    IN  Bind(fromParts, split(trim(t), ":"))

timeToMinutes(t) ==
    LET convert(hours, minutes) ==
            IF isNaN(hours) \/ isNaN(minutes)
            THEN Throw("Invalid time values")
            ELSE IF hours.n < 0 \/ hours.n > MaxHours
            THEN Throw("Invalid hour value")
            ELSE IF minutes.n < 0 \/ minutes.n > MaxMinutes
            THEN Throw("Invalid minute value")
            ELSE Return(hours.n * 60 + minutes.n)
        fromParts(parts) ==
            IF Len(parts) # 2
            THEN Throw("Invalid time format")
            ELSE Bind2(convert, parseInt(parts[1]), parseInt(parts[2]))
    IN  Bind(fromParts, split(trim(t), ":"))

getCurrentMinutes == clock

\* isLightTime with the light start excluded in the normal range (> for >=)
isLightTime_StartExclusive(ls, ds, currentMinutes) ==
    LET at(lightStartMinutes, darkStartMinutes) ==
            IF lightStartMinutes.thrown THEN lightStartMinutes
            ELSE IF darkStartMinutes.thrown THEN darkStartMinutes
            ELSE IF lightStartMinutes.value < darkStartMinutes.value
            THEN Return(/\ currentMinutes > lightStartMinutes.value
                        /\ currentMinutes < darkStartMinutes.value)
            ELSE Return(\/ currentMinutes >= lightStartMinutes.value
                        \/ currentMinutes < darkStartMinutes.value)
    IN  Bind2(at, timeToMinutes(ls), timeToMinutes(ds))

\* isLightTime with the dark start included in the normal range (<= for <)
isLightTime_DarkInclusive(ls, ds, currentMinutes) ==
    LET at(lightStartMinutes, darkStartMinutes) ==
            IF lightStartMinutes.thrown THEN lightStartMinutes
            ELSE IF darkStartMinutes.thrown THEN darkStartMinutes
            ELSE IF lightStartMinutes.value < darkStartMinutes.value
            THEN Return(/\ currentMinutes >= lightStartMinutes.value
                        /\ currentMinutes <= darkStartMinutes.value)
            ELSE Return(\/ currentMinutes >= lightStartMinutes.value
                        \/ currentMinutes < darkStartMinutes.value)
    IN  Bind2(at, timeToMinutes(ls), timeToMinutes(ds))

\* isLightTime with && for || in the midnight-crossing range
isLightTime_WrapAnd(ls, ds, currentMinutes) ==
    LET at(lightStartMinutes, darkStartMinutes) ==
            IF lightStartMinutes.thrown THEN lightStartMinutes
            ELSE IF darkStartMinutes.thrown THEN darkStartMinutes
            ELSE IF lightStartMinutes.value < darkStartMinutes.value
            THEN Return(/\ currentMinutes >= lightStartMinutes.value
                        /\ currentMinutes < darkStartMinutes.value)
            ELSE Return(/\ currentMinutes >= lightStartMinutes.value
                        /\ currentMinutes < darkStartMinutes.value)
    IN  Bind2(at, timeToMinutes(ls), timeToMinutes(ds))

isLightTime(ls, ds, currentMinutes) ==
    LET at(lightStartMinutes, darkStartMinutes) ==
            IF lightStartMinutes.thrown THEN lightStartMinutes
            ELSE IF darkStartMinutes.thrown THEN darkStartMinutes
            ELSE IF lightStartMinutes.value < darkStartMinutes.value
            THEN Return(/\ currentMinutes >= lightStartMinutes.value
                        /\ currentMinutes < darkStartMinutes.value)
            ELSE Return(\/ currentMinutes >= lightStartMinutes.value
                        \/ currentMinutes < darkStartMinutes.value)
    IN  Bind2(at, timeToMinutes(ls), timeToMinutes(ds))

getThemeFromTime(ls, ds, currentMinutes) ==
    LET themeOf(light) ==
            IF light.thrown THEN light
            ELSE Return(IF light.value THEN "light" ELSE "dark")
    IN  Bind(themeOf, isLightTime(ls, ds, currentMinutes))

\* getNextBoundary without the next-day offset after the dark start
getNextBoundary_NoNextDay(ls, ds, currentMinutes) ==
    LET at(lightStartMinutes, darkStartMinutes) ==
            IF lightStartMinutes.thrown THEN lightStartMinutes
            ELSE IF darkStartMinutes.thrown THEN darkStartMinutes
            ELSE IF lightStartMinutes.value < darkStartMinutes.value
            THEN IF currentMinutes < lightStartMinutes.value
                 THEN Return(lightStartMinutes.value)
                 ELSE IF currentMinutes < darkStartMinutes.value
                 THEN Return(darkStartMinutes.value)
                 ELSE Return(lightStartMinutes.value)
            ELSE IF \/ currentMinutes >= lightStartMinutes.value
                    \/ currentMinutes < darkStartMinutes.value
                 THEN Return(darkStartMinutes.value)
                 ELSE Return(lightStartMinutes.value)
    IN  Bind2(at, timeToMinutes(ls), timeToMinutes(ds))

\* getNextBoundary with the two results of the midnight-crossing range swapped
getNextBoundary_WrapSwapped(ls, ds, currentMinutes) ==
    LET at(lightStartMinutes, darkStartMinutes) ==
            IF lightStartMinutes.thrown THEN lightStartMinutes
            ELSE IF darkStartMinutes.thrown THEN darkStartMinutes
            ELSE IF lightStartMinutes.value < darkStartMinutes.value
            THEN IF currentMinutes < lightStartMinutes.value
                 THEN Return(lightStartMinutes.value)
                 ELSE IF currentMinutes < darkStartMinutes.value
                 THEN Return(darkStartMinutes.value)
                 ELSE Return(lightStartMinutes.value + MinutesPerDay)
            ELSE IF \/ currentMinutes >= lightStartMinutes.value
                    \/ currentMinutes < darkStartMinutes.value
                 THEN Return(lightStartMinutes.value)
                 ELSE Return(darkStartMinutes.value)
    IN  Bind2(at, timeToMinutes(ls), timeToMinutes(ds))

getNextBoundary(ls, ds, currentMinutes) ==
    LET at(lightStartMinutes, darkStartMinutes) ==
            IF lightStartMinutes.thrown THEN lightStartMinutes
            ELSE IF darkStartMinutes.thrown THEN darkStartMinutes
            ELSE IF lightStartMinutes.value < darkStartMinutes.value
            THEN IF currentMinutes < lightStartMinutes.value
                 THEN Return(lightStartMinutes.value)
                 ELSE IF currentMinutes < darkStartMinutes.value
                 THEN Return(darkStartMinutes.value)
                 ELSE Return(lightStartMinutes.value + MinutesPerDay)
            ELSE IF \/ currentMinutes >= lightStartMinutes.value
                    \/ currentMinutes < darkStartMinutes.value
                 THEN Return(darkStartMinutes.value)
                 ELSE Return(lightStartMinutes.value)
    IN  Bind2(at, timeToMinutes(ls), timeToMinutes(ds))

\* getMsUntilNextBoundary without the next-day adjustment
getMsUntilNextBoundary_NoAdjust(ls, ds, currentMinutes) ==
    LET until(nextBoundary) ==
            IF nextBoundary.thrown THEN nextBoundary
            ELSE LET minutesUntilBoundary == nextBoundary.value - currentMinutes
                 IN  Return(minutesUntilBoundary * MsPerMinute)
    IN  Bind(until, getNextBoundary(ls, ds, currentMinutes))

getMsUntilNextBoundary(ls, ds, currentMinutes) ==
    LET until(nextBoundary) ==
            IF nextBoundary.thrown THEN nextBoundary
            ELSE LET minutesUntilBoundary == nextBoundary.value - currentMinutes
                     adjustedMinutes ==
                         IF minutesUntilBoundary < 0
                         THEN minutesUntilBoundary + MinutesPerDay
                         ELSE minutesUntilBoundary
                 IN  Return(adjustedMinutes * MsPerMinute)
    IN  Bind(until, getNextBoundary(ls, ds, currentMinutes))

isValidTimeConfig(ls, ds) ==
    IF timeToMinutes(ls).thrown \/ timeToMinutes(ds).thrown
    THEN Return(FALSE)
    ELSE Return(TRUE)

----------------------------------------------------------------------------
(* Calls of the time functions *)

CallTimeToMinutes ==
    /\ call' = "timeToMinutes"
    /\ ret' = timeToMinutes(time)
    /\ UNCHANGED <<lightStart, darkStart, clock, time>>
    /\ UNCHANGED pvars

CallIsLightTime ==
    /\ call' = "isLightTime"
    /\ ret' = isLightTime(lightStart, darkStart, getCurrentMinutes)
    /\ UNCHANGED <<lightStart, darkStart, clock, time>>
    /\ UNCHANGED pvars

CallGetThemeFromTime ==
    /\ call' = "getThemeFromTime"
    /\ ret' = getThemeFromTime(lightStart, darkStart, getCurrentMinutes)
    /\ UNCHANGED <<lightStart, darkStart, clock, time>>
    /\ UNCHANGED pvars

CallGetNextBoundary ==
    /\ call' = "getNextBoundary"
    /\ ret' = getNextBoundary(lightStart, darkStart, getCurrentMinutes)
    /\ UNCHANGED <<lightStart, darkStart, clock, time>>
    /\ UNCHANGED pvars

CallGetMsUntilNextBoundary ==
    /\ call' = "getMsUntilNextBoundary"
    /\ ret' = getMsUntilNextBoundary(lightStart, darkStart, getCurrentMinutes)
    /\ UNCHANGED <<lightStart, darkStart, clock, time>>
    /\ UNCHANGED pvars

CallIsValidTimeConfig ==
    /\ call' = "isValidTimeConfig"
    /\ ret' = isValidTimeConfig(lightStart, darkStart)
    /\ UNCHANGED <<lightStart, darkStart, clock, time>>
    /\ UNCHANGED pvars

----------------------------------------------------------------------------
(* Provider: values *)

Modes == {"auto", "light", "dark"}

Themes == {"light", "dark"}

\* JavaScript null (an absent localStorage item, an unset attribute)
Null == "<null>"

StorageKeys == {DEFAULT_STORAGE_KEY, testKey}

\* what may be stored under the storage key before the provider mounts
StoredValues == {Null, "auto", "light", "dark", "junk"}

StorageStatuses == {"ok", "absent", "throws"}

ApplyTargets == {"html", "body"}

\* the lightStart / darkStart props the application passes
ProviderConfigs ==
    { <<DEFAULT_LIGHT_START, DEFAULT_DARK_START>>,
      <<TimeString(800), TimeString(800)>>,
      <<InvalidTime, TimeString(800)>> }

\* the minutes the host clock shows while the provider runs
ClockInputs == ExampleMinutes \ {500}

NoState == [mode |-> "none", theme |-> "none"]

NoView == [mode |-> "none", theme |-> "none", lightStart |-> <<>>, darkStart |-> <<>>]

NoCallback == [mode |-> "none", lightStart |-> <<>>, darkStart |-> <<>>]

NoCleanup == [set |-> FALSE, handler |-> NoCallback]

NoProvider ==
    /\ config = [defaultMode |-> "auto", storageKey |-> DEFAULT_STORAGE_KEY,
                 applyTo |-> "html"]
    /\ storage = [k \in StorageKeys |-> Null]
    /\ storageStatus = "ok"
    /\ mounted = FALSE
    /\ state = NoState
    /\ view = NoView
    /\ needRender = FALSE
    /\ effectsPending = FALSE
    /\ cleanup = NoCleanup
    /\ timeoutRef = 0
    /\ timers = {}
    /\ listeners = {}
    /\ dom = [t \in ApplyTargets |-> Null]
    /\ notified = <<>>
    /\ lastSelected = "none"

----------------------------------------------------------------------------
(* Storage helpers (storage.ts); each returns its value and the storage after *)

\* isStorageAvailable that only looks for window (no probe of the storage)
isStorageAvailable_WindowOnly(st, status) ==
    IF status = "absent"
    THEN [value |-> FALSE, storage |-> st]
    ELSE [value |-> TRUE, storage |-> st]

isStorageAvailable(st, status) ==
    IF status = "absent"
    THEN [value |-> FALSE, storage |-> st]
    ELSE IF status = "throws"
    THEN [value |-> FALSE, storage |-> st]
    ELSE [value |-> TRUE, storage |-> [st EXCEPT ![testKey] = Null]]

getStoredMode(st, status, storageKey) ==
    LET avail == isStorageAvailable(st, status)
    IN  IF ~avail.value
        THEN [value |-> Null, storage |-> avail.storage]
        ELSE LET stored == avail.storage[storageKey]
             IN  [value |-> IF stored = "auto" \/ stored = "light" \/ stored = "dark"
                            THEN stored ELSE Null,
                  storage |-> avail.storage]

\* storeMode that reports success without writing the item
storeMode_NoWrite(st, status, mode, storageKey) ==
    LET avail == isStorageAvailable(st, status)
    IN  IF ~avail.value
        THEN [value |-> FALSE, storage |-> avail.storage]
        ELSE [value |-> TRUE, storage |-> avail.storage]

storeMode(st, status, mode, storageKey) ==
    LET avail == isStorageAvailable(st, status)
    IN  IF ~avail.value
        THEN [value |-> FALSE, storage |-> avail.storage]
        ELSE [value |-> TRUE,
              storage |-> [avail.storage EXCEPT ![storageKey] = mode]]

\* clearStoredMode that reports success without removing the item
clearStoredMode_Keep(st, status, storageKey) ==
    LET avail == isStorageAvailable(st, status)
    IN  IF ~avail.value
        THEN [value |-> FALSE, storage |-> avail.storage]
        ELSE [value |-> TRUE, storage |-> avail.storage]

clearStoredMode(st, status, storageKey) ==
    LET avail == isStorageAvailable(st, status)
    IN  IF ~avail.value
        THEN [value |-> FALSE, storage |-> avail.storage]
        ELSE [value |-> TRUE,
              storage |-> [avail.storage EXCEPT ![storageKey] = Null]]

\* getStoredMode(storageKey) ?? defaultMode; stored is what getStoredMode returned
getStoredModeWithFallback(st, status, storageKey, defaultMode) ==
    LET got == getStoredMode(st, status, storageKey)
    IN  [value |-> IF got.value # Null THEN got.value ELSE defaultMode,
         stored |-> got.value,
         storage |-> got.storage]

----------------------------------------------------------------------------
(* Provider: helpers (AutoThemeProvider.tsx) *)

\* mergedConfig without the validation of the two times
mergedConfig_NoValidation(ls, ds) ==
    [lightStart |-> ls, darkStart |-> ds]

\* {...DEFAULT_CONFIG, ...config} followed by the validation of the two times
mergedConfig(ls, ds) ==
    IF ~isValidTimeConfig(ls, ds).value
    THEN [lightStart |-> DEFAULT_LIGHT_START, darkStart |-> DEFAULT_DARK_START]
    ELSE [lightStart |-> ls, darkStart |-> ds]

calculateTheme(mode, cfg, currentMinutes) ==
    IF mode = "light" THEN Return("light")
    ELSE IF mode = "dark" THEN Return("dark")
    ELSE getThemeFromTime(cfg.lightStart, cfg.darkStart, currentMinutes)

applyThemeToDom(d, theme, applyTo) == [d EXCEPT ![applyTo] = theme]

\* what the callbacks created by a render see
Closure(st, cfg) ==
    [mode |-> st.mode, theme |-> st.theme,
     lightStart |-> cfg.lightStart, darkStart |-> cfg.darkStart]

\* what scheduleNextCheck and handleVisibilityChange of a render read from it
Callbacks(v) ==
    [mode |-> v.mode, lightStart |-> v.lightStart, darkStart |-> v.darkStart]

clearTimeout(tms, id) == {t \in tms : t.id # id}

Min(a, b) == IF a < b THEN a ELSE b

\* setTimeout: the timer is due once the clock has passed target
NewTimer(id, cl, now, delay) ==
    [id |-> id, closure |-> cl,
     target |-> (now + (delay \div MsPerMinute)) % MinutesPerDay,
     due |-> delay = 0]

FreeIds(tms, ref) == {i \in 1..MaxTimers : i # ref /\ \A t \in tms : t.id # i}

\* scheduleNextCheck without clearing the existing timeout
scheduleNextCheck_NoClear(cl, ref, tms, now) ==
    LET cleared == tms
        setTimeout(msUntilBoundary) ==
            IF msUntilBoundary.thrown
            THEN [ref |-> 0, timers |-> cleared, thrown |-> TRUE]
            ELSE IF FreeIds(cleared, ref) = {}
            THEN [ref |-> 0, timers |-> cleared, thrown |-> FALSE]
            ELSE LET safeMsUntilBoundary == Min(msUntilBoundary.value, MaxDelayMs)
                     id == CHOOSE i \in FreeIds(cleared, ref) :
                               \A j \in FreeIds(cleared, ref) : i <= j
                 IN  [ref |-> id,
                      timers |-> cleared \cup
                                     {NewTimer(id, cl, now, safeMsUntilBoundary)},
                      thrown |-> FALSE]
    IN  IF cl.mode # "auto"
        THEN [ref |-> 0, timers |-> cleared, thrown |-> FALSE]
        ELSE Bind(setTimeout,
                  getMsUntilNextBoundary(cl.lightStart, cl.darkStart, now))

\* scheduleNextCheck without the auto-mode check
scheduleNextCheck_AnyMode(cl, ref, tms, now) ==
    LET cleared == IF ref # 0 THEN clearTimeout(tms, ref) ELSE tms
        setTimeout(msUntilBoundary) ==
            IF msUntilBoundary.thrown
            THEN [ref |-> 0, timers |-> cleared, thrown |-> TRUE]
            ELSE IF FreeIds(cleared, ref) = {}
            THEN [ref |-> 0, timers |-> cleared, thrown |-> FALSE]
            ELSE LET safeMsUntilBoundary == Min(msUntilBoundary.value, MaxDelayMs)
                     id == CHOOSE i \in FreeIds(cleared, ref) :
                               \A j \in FreeIds(cleared, ref) : i <= j
                 IN  [ref |-> id,
                      timers |-> cleared \cup
                                     {NewTimer(id, cl, now, safeMsUntilBoundary)},
                      thrown |-> FALSE]
    IN  Bind(setTimeout,
             getMsUntilNextBoundary(cl.lightStart, cl.darkStart, now))

\* scheduleNextCheck of the render with closure cl; returns timeoutRef.current
\* and the pending timers after it
scheduleNextCheck(cl, ref, tms, now) ==
    LET cleared == IF ref # 0 THEN clearTimeout(tms, ref) ELSE tms
        setTimeout(msUntilBoundary) ==
            IF msUntilBoundary.thrown
            THEN [ref |-> 0, timers |-> cleared, thrown |-> TRUE]
            ELSE IF FreeIds(cleared, ref) = {}
            THEN [ref |-> 0, timers |-> cleared, thrown |-> FALSE]
            ELSE LET safeMsUntilBoundary == Min(msUntilBoundary.value, MaxDelayMs)
                     id == CHOOSE i \in FreeIds(cleared, ref) :
                               \A j \in FreeIds(cleared, ref) : i <= j
                 IN  [ref |-> id,
                      timers |-> cleared \cup
                                     {NewTimer(id, cl, now, safeMsUntilBoundary)},
                      thrown |-> FALSE]
    IN  IF cl.mode # "auto"
        THEN [ref |-> 0, timers |-> cleared, thrown |-> FALSE]
        ELSE Bind(setTimeout,
                  getMsUntilNextBoundary(cl.lightStart, cl.darkStart, now))

\* the timer updater with the mode check inverted
TimerUpdater_ModeInverted(prevState, newTheme) ==
    IF prevState.mode = "auto" THEN prevState
    ELSE IF prevState.theme = newTheme THEN prevState
    ELSE [prevState EXCEPT !.theme = newTheme]

\* the timer updater without the mode check
TimerUpdater_NoModeCheck(prevState, newTheme) ==
    IF prevState.theme = newTheme THEN prevState
    ELSE [prevState EXCEPT !.theme = newTheme]

\* the setState updater of the timer callback
TimerUpdater(prevState, newTheme) ==
    IF prevState.mode # "auto" THEN prevState
    ELSE IF prevState.theme = newTheme THEN prevState
    ELSE [prevState EXCEPT !.theme = newTheme]

\* the setState updater of handleVisibilityChange
VisibilityUpdater(prevState, newTheme) ==
    IF prevState.theme = newTheme THEN prevState
    ELSE [prevState EXCEPT !.theme = newTheme]

\* handleVisibilityChange of the render with closure h, on the provider parts
\* p = [state, dom, notified, needRender]
handleVisibilityChange(h, p, visibility, applyTo, now) ==
    LET setState(newTheme) ==
            IF VisibilityUpdater(p.state, newTheme) = p.state
            THEN p
            ELSE [state |-> VisibilityUpdater(p.state, newTheme),
                  dom |-> applyThemeToDom(p.dom, newTheme, applyTo),
                  notified |-> Append(p.notified,
                                      [theme |-> newTheme, mode |-> "auto"]),
                  needRender |-> TRUE]
    IN  IF visibility = "visible" /\ h.mode = "auto"
        THEN Bind(setState,
                  getThemeFromTime(h.lightStart, h.darkStart, now).value)
        ELSE p

\* the event reaches every registered handler
RECURSIVE Dispatch(_, _, _, _, _)
Dispatch(hs, p, visibility, applyTo, now) ==
    IF hs = {}
    THEN p
    ELSE LET h == CHOOSE x \in hs : TRUE
         IN  Dispatch(hs \ {h}, handleVisibilityChange(h, p, visibility, applyTo, now),
                      visibility, applyTo, now)

\* time passes from minute from to minute to: a timer whose target lies in
\* between becomes due
Elapse(t, from, to) ==
    IF t.due THEN t
    ELSE [t EXCEPT !.due = ((t.target - from) % MinutesPerDay)
                               <= ((to - from) % MinutesPerDay)]

----------------------------------------------------------------------------
(* Provider: steps *)

\* first render: useState initialiser
Mount ==
    /\ ~mounted
    /\ \E cfg \in {mergedConfig(lightStart, darkStart)} :
       \E storedMode \in {getStoredModeWithFallback(storage, storageStatus,
                               config.storageKey, config.defaultMode)} :
       \E theme \in {calculateTheme(storedMode.value, cfg, getCurrentMinutes)} :
           /\ storage' = storedMode.storage
           /\ IF theme.thrown
              THEN /\ ret' = theme
                   /\ UNCHANGED <<mounted, state, view, effectsPending>>
              ELSE /\ UNCHANGED ret
                   /\ mounted' = TRUE
                   /\ state' = [mode |-> storedMode.value, theme |-> theme.value]
                   /\ view' = Closure([mode |-> storedMode.value,
                                       theme |-> theme.value], cfg)
                   /\ effectsPending' = TRUE
    /\ notified' = <<>>
    /\ UNCHANGED <<call, lightStart, darkStart, clock, time, config,
                   storageStatus, needRender, cleanup, timeoutRef, timers,
                   listeners, dom, lastSelected>>

\* a later render: new closures over the current state and props
Render ==
    /\ mounted /\ needRender /\ ~effectsPending
    /\ view' = Closure(state, mergedConfig(lightStart, darkStart))
    /\ needRender' = FALSE
    /\ effectsPending' = TRUE
    /\ notified' = <<>>
    /\ UNCHANGED <<call, ret, lightStart, darkStart, clock, time, config,
                   storage, storageStatus, mounted, state, cleanup, timeoutRef,
                   timers, listeners, dom, lastSelected>>

\* the passive effects of the latest render: the mount effect (first time),
\* the cleanup of the previous run, scheduling and the listener, and the
\* config/mode effect
RunEffects ==
    /\ mounted /\ effectsPending
    /\ LET dom1 == IF cleanup.set THEN dom
                   ELSE applyThemeToDom(dom, view.theme, config.applyTo)
           tms1 == IF cleanup.set /\ timeoutRef # 0
                   THEN clearTimeout(timers, timeoutRef) ELSE timers
           ls1 == IF cleanup.set THEN listeners \ {cleanup.handler} ELSE listeners
       IN  \E s1 \in {scheduleNextCheck(Callbacks(view), timeoutRef, tms1,
                                        getCurrentMinutes)} :
           \E s2 \in {IF view.mode = "auto"
                      THEN scheduleNextCheck(Callbacks(view), s1.ref, s1.timers,
                                             getCurrentMinutes)
                      ELSE s1} :
               /\ ret' = IF s1.thrown \/ s2.thrown
                         THEN Throw("Invalid time format") ELSE ret
               /\ dom' = dom1
               /\ timeoutRef' = s2.ref
               /\ timers' = s2.timers
               /\ listeners' = ls1 \cup {Callbacks(view)}
               /\ cleanup' = [set |-> TRUE, handler |-> Callbacks(view)]
    /\ effectsPending' = FALSE
    /\ notified' = <<>>
    /\ UNCHANGED <<call, lightStart, darkStart, clock, time, config, storage,
                   storageStatus, mounted, state, view, needRender,
                   lastSelected>>

\* setMode of the latest render
SetModeTo(newMode) ==
    /\ mounted
    /\ \E newTheme \in {calculateTheme(newMode, view, getCurrentMinutes)} :
       \E stored \in {IF newMode = "auto"
                      THEN clearStoredMode(storage, storageStatus,
                                           config.storageKey)
                      ELSE storeMode(storage, storageStatus, newMode,
                                     config.storageKey)} :
           IF newTheme.thrown
           THEN /\ ret' = newTheme
                /\ notified' = <<>>
                /\ UNCHANGED <<storage, state, dom, needRender, lastSelected>>
           ELSE /\ UNCHANGED ret
                /\ storage' = stored.storage
                /\ state' = [mode |-> newMode, theme |-> newTheme.value]
                /\ dom' = applyThemeToDom(dom, newTheme.value, config.applyTo)
                /\ notified' = <<[theme |-> newTheme.value, mode |-> newMode]>>
                /\ needRender' = TRUE
                /\ lastSelected' = newMode
    /\ UNCHANGED <<call, lightStart, darkStart, clock, time, config,
                   storageStatus, mounted, view, effectsPending, cleanup,
                   timeoutRef, timers, listeners>>

\* setMode, setLight, setDark, setAuto
SetMode == \E newMode \in Modes : SetModeTo(newMode)

ToggleTheme ==
    \E newMode \in {IF view.theme = "light" THEN "dark" ELSE "light"} :
        SetModeTo(newMode)

\* the parent renders the provider with other lightStart / darkStart
ConfigChange ==
    /\ mounted
    /\ \E c \in ProviderConfigs :
           /\ c # <<lightStart, darkStart>>
           /\ lightStart' = c[1]
           /\ darkStart' = c[2]
    /\ needRender' = TRUE
    /\ notified' = <<>>
    /\ UNCHANGED <<call, ret, clock, time, config, storage, storageStatus,
                   mounted, state, view, effectsPending, cleanup, timeoutRef,
                   timers, listeners, dom, lastSelected>>

\* a due timer runs its callback: the theme for the closure's configuration,
\* the updater, then scheduleNextCheck of the same closure
TimerFire ==
    /\ \E t \in timers :
           /\ t.due
           /\ \E newTheme \in {getThemeFromTime(t.closure.lightStart,
                                    t.closure.darkStart, getCurrentMinutes)} :
              \E next \in {IF mounted /\ ~newTheme.thrown
                           THEN TimerUpdater(state, newTheme.value)
                           ELSE state} :
              \E s \in {scheduleNextCheck(t.closure, timeoutRef, timers \ {t},
                                         getCurrentMinutes)} :
                  /\ ret' = IF newTheme.thrown THEN newTheme ELSE ret
                  /\ state' = next
                  /\ IF next # state
                     THEN /\ dom' = applyThemeToDom(dom, newTheme.value,
                                                    config.applyTo)
                          /\ notified' = <<[theme |-> newTheme.value,
                                            mode |-> "auto"]>>
                          /\ needRender' = TRUE
                     ELSE /\ notified' = <<>>
                          /\ UNCHANGED <<dom, needRender>>
                  /\ IF newTheme.thrown
                     THEN /\ timers' = timers \ {t}
                          /\ UNCHANGED timeoutRef
                     ELSE /\ timers' = s.timers
                          /\ timeoutRef' = s.ref
    /\ UNCHANGED <<call, lightStart, darkStart, clock, time, config, storage,
                   storageStatus, mounted, view, effectsPending, cleanup,
                   listeners, lastSelected>>

\* the tab is hidden or shown: document dispatches visibilitychange while
\* document.visibilityState is v
VisibilityChange ==
    /\ \E v \in {"visible", "hidden"} :
       \E p \in {Dispatch(listeners,
                          [state |-> state, dom |-> dom, notified |-> <<>>,
                           needRender |-> needRender],
                          v, config.applyTo, getCurrentMinutes)} :
           /\ state' = p.state
           /\ dom' = p.dom
           /\ notified' = p.notified
           /\ needRender' = p.needRender
    /\ UNCHANGED <<call, ret, lightStart, darkStart, clock, time, config,
                   storage, storageStatus, mounted, view, effectsPending,
                   cleanup, timeoutRef, timers, listeners, lastSelected>>

\* the host clock moves on to another minute
AdvanceClock ==
    /\ \E c \in ClockInputs :
           /\ c # clock
           /\ clock' = c
           /\ timers' = {Elapse(t, clock, c) : t \in timers}
    /\ notified' = <<>>
    /\ UNCHANGED <<call, ret, lightStart, darkStart, time, config, storage,
                   storageStatus, mounted, state, view, needRender,
                   effectsPending, cleanup, timeoutRef, listeners, dom,
                   lastSelected>>

\* unmount without the cleanup of the last effect run
Unmount_NoCleanup ==
    /\ mounted
    /\ mounted' = FALSE
    /\ state' = NoState
    /\ view' = NoView
    /\ needRender' = FALSE
    /\ effectsPending' = FALSE
    /\ cleanup' = NoCleanup
    /\ timeoutRef' = 0
    /\ notified' = <<>>
    /\ UNCHANGED <<call, ret, lightStart, darkStart, clock, time, config,
                   storage, storageStatus, dom, lastSelected, timers,
                   listeners>>

\* the provider leaves the tree: the cleanup of the last effect run
Unmount ==
    /\ mounted
    /\ timers' = IF cleanup.set /\ timeoutRef # 0
                 THEN clearTimeout(timers, timeoutRef) ELSE timers
    /\ listeners' = IF cleanup.set THEN listeners \ {cleanup.handler}
                    ELSE listeners
    /\ mounted' = FALSE
    /\ state' = NoState
    /\ view' = NoView
    /\ needRender' = FALSE
    /\ effectsPending' = FALSE
    /\ cleanup' = NoCleanup
    /\ timeoutRef' = 0
    /\ notified' = <<>>
    /\ UNCHANGED <<call, ret, lightStart, darkStart, clock, time, config,
                   storage, storageStatus, dom, lastSelected>>

----------------------------------------------------------------------------
(* Properties of the time functions *)

\* both configuration strings parse
ValidPair == ~timeToMinutes(lightStart).thrown /\ ~timeToMinutes(darkStart).thrown

L == timeToMinutes(lightStart).value

D == timeToMinutes(darkStart).value

C == clock

\* the state (TRUE = light) the code computes at minute m for the configuration
LightAt(m) == isLightTime(lightStart, darkStart, m).value

\* C1: for L, D, C in [0,1440), isLightTime is true iff (L < D and L <= C < D)
\* or (L >= D and (C >= L or C < D)); when L # D the minute L is light and the
\* minute D is dark.
C1_IsLightTimeRule ==
    (call = "isLightTime" /\ ValidPair) =>
        /\ ~ret.thrown
        /\ ret.value = (\/ (L < D /\ L <= C /\ C < D)
                        \/ (L >= D /\ (C >= L \/ C < D)))
        /\ (L # D /\ C = L => ret.value = TRUE)
        /\ (L # D /\ C = D => ret.value = FALSE)

C1_Witness ==
    /\ call = "isLightTime" /\ ValidPair
    /\ L < D /\ C = L /\ ret.value = TRUE

\* C2 (as stated): when lightStart equals darkStart the computed state is dark
\* for every current minute.
C2_DegenerateAlwaysDark ==
    /\ (call = "isLightTime" /\ ValidPair /\ L = D) => ret.value = FALSE
    /\ (call = "getThemeFromTime" /\ ValidPair /\ L = D) => ret.value = "dark"

\* C2 (amended): when lightStart equals darkStart the computed state is light
\* for every current minute.
C2_DegenerateAlwaysLight ==
    /\ (call = "isLightTime" /\ ValidPair /\ L = D) => ret.value = TRUE
    /\ (call = "getThemeFromTime" /\ ValidPair /\ L = D) => ret.value = "light"

C2_Witness ==
    /\ call = "getThemeFromTime" /\ ValidPair
    /\ L = D /\ C # L /\ ret.value = "light"

\* C3: in the normal range (L < D) getNextBoundary returns L when C < L, D when
\* L <= C < D, and L + 1440 when C >= D.
C3_NextBoundaryNormal ==
    (call = "getNextBoundary" /\ ValidPair /\ L < D) =>
        /\ ~ret.thrown
        /\ (C < L => ret.value = L)
        /\ (L <= C /\ C < D => ret.value = D)
        /\ (C >= D => ret.value = L + 1440)

C3_Witness ==
    /\ call = "getNextBoundary" /\ ValidPair
    /\ L < D /\ C >= D /\ ret.value = L + 1440

\* C4 (as stated): in the midnight-crossing range (L >= D) getNextBoundary
\* returns D when the state is light and C < D, D + 1440 when the state is light
\* and C >= L, and L when the state is dark (D <= C < L).
C4_NextBoundaryWrap ==
    (call = "getNextBoundary" /\ ValidPair /\ L >= D) =>
        /\ (C < D => ret.value = D)
        /\ (C >= L => ret.value = D + 1440)
        /\ (D <= C /\ C < L => ret.value = L)

\* C5 (as stated): for every pair (L, D) and every C, with N the result of
\* getNextBoundary at C, the state at (N - 1) mod 1440 differs from the state at
\* N mod 1440.
C5_ConsistencyLaw ==
    (call = "getNextBoundary" /\ ValidPair) =>
        LightAt((ret.value - 1) % 1440) # LightAt(ret.value % 1440)

\* C5 (amended): the same for every pair with L # D.
C5_ConsistencyLawDistinct ==
    (call = "getNextBoundary" /\ ValidPair /\ L # D) =>
        LightAt((ret.value - 1) % 1440) # LightAt(ret.value % 1440)

C5_Witness ==
    /\ call = "getNextBoundary" /\ ValidPair
    /\ L > D /\ C >= L /\ ret.value % 1440 = D
    /\ LightAt((D - 1) % 1440) /\ ~LightAt(D)

\* C6: the state at C equals the state at every minute from C up to
\* (N - 1) mod 1440, N being the result of getNextBoundary at C; in particular
\* state(C) = state((N - 1) mod 1440).
C6_NoChangeBeforeBoundary ==
    (call = "getNextBoundary" /\ ValidPair) =>
        /\ \A k \in 0..((ret.value - 1 - C) % 1440) :
               LightAt((C + k) % 1440) = LightAt(C)
        /\ LightAt((ret.value - 1) % 1440) = LightAt(C)

C6_Witness ==
    /\ call = "getNextBoundary" /\ ValidPair
    /\ L > D /\ C >= L /\ D > 0
    /\ (ret.value - 1 - C) % 1440 > 0
    /\ (C + ((ret.value - 1 - C) % 1440)) % 1440 < C

\* C7 (as stated): for every pair (L, D) and every C, getMsUntilNextBoundary
\* returns a value strictly greater than 0 and at most 1440 * 60000.
C7_MsPositiveBounded ==
    (call = "getMsUntilNextBoundary" /\ ValidPair) =>
        /\ ret.value > 0
        /\ ret.value <= 1440 * 60000

\* C8: getMsUntilNextBoundary is 60000 times the difference N - C, with 1440
\* added first when the difference is negative; (420, 1320) at 500 gives
\* 49,200,000 ms, (1320, 420) at 30 gives 390 minutes and at 800 gives 520.
C8_MsFromRawDifference ==
    (call = "getMsUntilNextBoundary" /\ ValidPair) =>
        LET N == getNextBoundary(lightStart, darkStart, C).value
            raw == N - C
        IN  /\ ~ret.thrown
            /\ ret.value = 60000 * (IF raw < 0 THEN raw + 1440 ELSE raw)
            /\ (L = 420 /\ D = 1320 /\ C = 500 => ret.value = 49200000)
            /\ (L = 1320 /\ D = 420 /\ C = 30 => ret.value = 390 * 60000)
            /\ (L = 1320 /\ D = 420 /\ C = 800 => ret.value = 520 * 60000)

C8_Witness ==
    /\ call = "getMsUntilNextBoundary" /\ ValidPair
    /\ L = 1320 /\ D = 420 /\ C = 1439
    /\ getNextBoundary(lightStart, darkStart, C).value - C < 0
    /\ ret.value = 421 * 60000

\* the text of an integer: an optional sign and then decimal digits only
IsIntegerText(f) ==
    LET body == IF Len(f) > 0 /\ f[1] \in {"+", "-"} THEN Tail(f) ELSE f
    IN  Len(body) > 0 /\ \A i \in 1..Len(body) : IsDigit(body[i])

ColonCount(s) == Cardinality({i \in 1..Len(s) : s[i] = ":"})

\* the text before and after the only ':' of a trimmed string
FieldsOf(s) ==
    LET t == trim(s)
        i == CHOOSE k \in 1..Len(t) : t[k] = ":"
    IN  <<SubSeq(t, 1, i - 1), SubSeq(t, i + 1, Len(t))>>

\* C9 (as stated): timeToMinutes throws for every input whose ':' count is not
\* exactly one, and for every input in which either field is not an integer.
C9_RejectsMalformed ==
    call = "timeToMinutes" =>
        /\ (ColonCount(time) # 1 => ret.thrown)
        /\ ((/\ ColonCount(time) = 1
             /\ \E j \in 1..2 : ~IsIntegerText(trim(FieldsOf(time)[j])))
                => ret.thrown)

\* C10: timeToMinutes throws whenever the parsed hours are outside [0,23] or the
\* parsed minutes are outside [0,59]; whenever it returns, the result is
\* hours * 60 + minutes and lies in [0,1440).
C10_RangeChecked ==
    (call = "timeToMinutes" /\ ColonCount(time) = 1) =>
        LET hours == parseInt(FieldsOf(time)[1])
            minutes == parseInt(FieldsOf(time)[2])
        IN  /\ (~isNaN(hours) /\ ~isNaN(minutes)
                  /\ (hours.n < 0 \/ hours.n > 23 \/ minutes.n < 0 \/ minutes.n > 59))
                   => ret.thrown
            /\ ~ret.thrown =>
                   /\ ~isNaN(hours) /\ ~isNaN(minutes)
                   /\ ret.value = hours.n * 60 + minutes.n
                   /\ ret.value >= 0 /\ ret.value < 1440

C10_Witness ==
    /\ call = "timeToMinutes" /\ ColonCount(time) = 1
    /\ parseInt(FieldsOf(time)[1]) = Num(26)
    /\ parseInt(FieldsOf(time)[2]) = Num(0)
    /\ ret.thrown

----------------------------------------------------------------------------
(* Specifications *)

\* a direct call of timeToMinutes on any short string
InitParse ==
    /\ time \in TimeInputs
    /\ lightStart = DEFAULT_LIGHT_START
    /\ darkStart = DEFAULT_DARK_START
    /\ clock = 0
    /\ call = "none"
    /\ ret = NoResult
    /\ NoProvider

NextParse == CallTimeToMinutes

SpecParse == InitParse /\ [][NextParse]_vars

\* the boundary functions on a configuration at some minute of the day
InitBoundary ==
    /\ lightStart \in ConfigInputs
    /\ darkStart \in ConfigInputs
    /\ clock \in MinuteInputs
    /\ time = DEFAULT_LIGHT_START
    /\ call = "none"
    /\ ret = NoResult
    /\ NoProvider

NextBoundary ==
    \/ CallIsLightTime
    \/ CallGetThemeFromTime
    \/ CallGetNextBoundary
    \/ CallGetMsUntilNextBoundary
    \/ CallIsValidTimeConfig

SpecBoundary == InitBoundary /\ [][NextBoundary]_vars

\* before the provider is rendered for the first time
Unmounted ==
    /\ time = DEFAULT_LIGHT_START
    /\ call = "none"
    /\ ret = NoResult
    /\ mounted = FALSE
    /\ state = NoState
    /\ view = NoView
    /\ needRender = FALSE
    /\ effectsPending = FALSE
    /\ cleanup = NoCleanup
    /\ timeoutRef = 0
    /\ timers = {}
    /\ listeners = {}
    /\ dom = [t \in ApplyTargets |-> Null]
    /\ notified = <<>>
    /\ lastSelected = "none"

\* the provider in its host with working storage under the default key:
\* mount, renders and effects, the user's calls, prop changes, timers,
\* visibility events, the clock, unmount
InitProvider ==
    /\ \E c \in ProviderConfigs : lightStart = c[1] /\ darkStart = c[2]
    /\ clock \in ClockInputs
    /\ config \in [defaultMode : Modes, storageKey : {DEFAULT_STORAGE_KEY},
                   applyTo : {"html"}]
    /\ storage \in {[k \in StorageKeys |-> IF k = config.storageKey THEN v ELSE Null] :
                       v \in StoredValues}
    /\ storageStatus = "ok"
    /\ Unmounted

NextProvider ==
    \/ Mount
    \/ Render
    \/ RunEffects
    \/ SetMode
    \/ ToggleTheme
    \/ ConfigChange
    \/ TimerFire
    \/ VisibilityChange
    \/ AdvanceClock
    \/ Unmount

SpecProvider == InitProvider /\ [][NextProvider]_vars

\* the provider and its storage: every storage key, storage state, stored
\* value, default mode and target, under fixed props and a fixed clock
InitStorage ==
    /\ lightStart = DEFAULT_LIGHT_START
    /\ darkStart = DEFAULT_DARK_START
    /\ clock \in ClockInputs
    /\ config \in [defaultMode : Modes, storageKey : StorageKeys,
                   applyTo : ApplyTargets]
    /\ storage \in {[k \in StorageKeys |-> IF k = config.storageKey THEN v ELSE Null] :
                       v \in StoredValues}
    /\ storageStatus \in StorageStatuses
    /\ Unmounted

NextStorage ==
    \/ Mount
    \/ Render
    \/ RunEffects
    \/ SetMode
    \/ ToggleTheme
    \/ Unmount

SpecStorage == InitStorage /\ [][NextStorage]_vars

\* valid lightStart / darkStart pairs: a day range, a range that crosses
\* midnight, and the degenerate pair
FixedConfigs ==
    { <<DEFAULT_LIGHT_START, DEFAULT_DARK_START>>,
      <<DEFAULT_DARK_START, DEFAULT_LIGHT_START>>,
      <<TimeString(800), TimeString(800)>> }

\* the provider left alone in auto mode under a fixed configuration: it
\* renders, runs its effects, and its timers fire while the clock runs
InitAuto ==
    /\ \E c \in FixedConfigs : lightStart = c[1] /\ darkStart = c[2]
    /\ clock \in ClockInputs
    /\ config = [defaultMode |-> "auto", storageKey |-> DEFAULT_STORAGE_KEY,
                 applyTo |-> "html"]
    /\ storage = [k \in StorageKeys |-> Null]
    /\ storageStatus = "ok"
    /\ Unmounted

NextAuto ==
    \/ Mount
    \/ Render
    \/ RunEffects
    \/ TimerFire
    \/ AdvanceClock

\* React renders after a state change and runs the effects of a render; a
\* due timer's callback is run by the event loop; time passes
SpecAuto ==
    /\ InitAuto
    /\ [][NextAuto]_vars
    /\ WF_vars(Render)
    /\ WF_vars(RunEffects)
    /\ WF_vars(TimerFire)
    /\ WF_vars(AdvanceClock)

\* the provider while the parent changes lightStart / darkStart and the
\* clock stands still: any theme that is not the time-derived one comes from
\* a change of the props, not from the passing of time
InitProps ==
    /\ \E c \in ProviderConfigs : lightStart = c[1] /\ darkStart = c[2]
    /\ clock \in ClockInputs
    /\ config \in [defaultMode : Modes, storageKey : {DEFAULT_STORAGE_KEY},
                   applyTo : {"html"}]
    /\ storage = [k \in StorageKeys |-> Null]
    /\ storageStatus = "ok"
    /\ Unmounted

NextProps ==
    \/ Mount
    \/ Render
    \/ RunEffects
    \/ SetMode
    \/ ConfigChange
    \/ TimerFire
    \/ Unmount

SpecProps == InitProps /\ [][NextProps]_vars

----------------------------------------------------------------------------
(* Properties of the provider *)

\* the two strings a closure hands to the time functions parse
ValidClosure(cl) == isValidTimeConfig(cl.lightStart, cl.darkStart).value

\* the lightStart / darkStart props are not a valid pair
InvalidProps == ~isValidTimeConfig(lightStart, darkStart).value

\* every effect of the latest render has run and no render is scheduled
Quiescent == mounted /\ ~needRender /\ ~effectsPending

\* C11: when the configured lightStart or darkStart is invalid the provider
\* computes with the defaults 07:00 / 22:00, every closure that reaches the
\* time functions (the rendered callbacks, the armed timers, the registered
\* visibility handlers) holds valid strings, and no parse failure comes out
\* of a provider step.
C11_InvalidConfigUsesDefaults ==
    /\ ~ret.thrown
    /\ mounted => ValidClosure(view)
    /\ \A t \in timers : ValidClosure(t.closure)
    /\ \A h \in listeners : ValidClosure(h)
    /\ (mounted /\ ~needRender /\ InvalidProps) =>
           /\ view.lightStart = DEFAULT_LIGHT_START
           /\ view.darkStart = DEFAULT_DARK_START

C11_Witness ==
    /\ Quiescent /\ InvalidProps
    /\ view.lightStart = DEFAULT_LIGHT_START
    /\ view.darkStart = DEFAULT_DARK_START
    /\ \E t \in timers : t.closure.darkStart = DEFAULT_DARK_START

\* C12: under every interleaving of renders, effects, setMode calls, config
\* changes, timer firings and visibility events at most one timer is pending.
C12_AtMostOneTimer == Cardinality(timers) <= 1

\* a timer armed by a timer callback (not by an effect) while a render is
\* still outstanding
C12_Witness ==
    /\ mounted /\ needRender
    /\ Cardinality(timers) = 1
    /\ \E t \in timers : t.id = timeoutRef /\ t.closure # Callbacks(view)

\* C13: when the mounted provider is quiescent a timer is pending if and only
\* if mode is 'auto'; also between renders, once the effects of the latest
\* render have run, a timer is pending iff the rendered mode is 'auto'.
C13_TimerIffAuto ==
    /\ Quiescent => (timers # {} <=> state.mode = "auto")
    /\ (mounted /\ ~effectsPending) => (timers # {} <=> view.mode = "auto")

\* a manual mode was forced after auto and the timer is gone
C13_Witness ==
    /\ Quiescent
    /\ state.mode = "dark" /\ lastSelected = "dark"
    /\ config.defaultMode = "auto"
    /\ timers = {} /\ timeoutRef = 0

\* C14: in every reachable state where mode is 'light' or 'dark', theme equals
\* mode: neither a timer firing nor a visibilitychange event changes the theme
\* while a manual mode is active.
C14_ManualOverride ==
    (mounted /\ state.mode \in {"light", "dark"}) => state.theme = state.mode

\* the time-derived state for the current minute under the props
ThemeNow == getThemeFromTime(lightStart, darkStart, getCurrentMinutes).value

\* C15: in auto mode with a fixed configuration, whenever the theme differs
\* from the time-derived state for the current minute (the clock has crossed
\* a boundary), it eventually equals the time-derived state for the current
\* minute, given that due timers fire.
C15_ThemeFollowsClock ==
    (mounted /\ state.mode = "auto" /\ state.theme # ThemeNow)
        ~> (mounted /\ state.theme = ThemeNow)

\* a timer callback has just changed the theme to the time-derived state and
\* armed the next timer
C15_Witness ==
    /\ mounted /\ state.mode = "auto"
    /\ notified = <<[theme |-> ThemeNow, mode |-> "auto"]>>
    /\ state.theme = ThemeNow
    /\ needRender
    /\ \E t \in timers : t.id = timeoutRef /\ ~t.due

\* C16: when the backing store is unavailable or its operations throw,
\* getStoredMode returns null (the provider mounts in defaultMode), storeMode
\* and clearStoredMode return false, no step throws or touches the store, and
\* setMode still sets mode and theme.
C16_StorageUnavailable ==
    [][storageStatus # "ok" =>
          /\ getStoredMode(storage, storageStatus, config.storageKey).value = Null
          /\ \A m \in Modes :
                 ~storeMode(storage, storageStatus, m, config.storageKey).value
          /\ ~clearStoredMode(storage, storageStatus, config.storageKey).value
          /\ storage' = storage
          /\ ~ret'.thrown
          /\ Mount => state'.mode = config.defaultMode
          /\ \A m \in Modes :
                 SetModeTo(m) =>
                     state' = [mode |-> m,
                               theme |-> calculateTheme(m, view,
                                                        getCurrentMinutes).value]
    ]_vars

\* a value is stored but the store throws; the provider mounted in its
\* default mode and the user then chose light
C16_Witness ==
    /\ storageStatus = "throws"
    /\ storage[config.storageKey] = "dark"
    /\ config.defaultMode = "auto"
    /\ mounted /\ lastSelected = "light"
    /\ state = [mode |-> "light", theme |-> "light"]

\* C17: with storage available, after the user selected the manual mode m, a
\* remount under the same storageKey starts with mode m and theme m.
C17_RemountKeepsManualMode ==
    [][(Mount /\ storageStatus = "ok" /\ lastSelected \in {"light", "dark"}) =>
           state' = [mode |-> lastSelected, theme |-> lastSelected]
    ]_vars

\* C18: toggleTheme flips the theme and leaves the mode unchanged.
C18_ToggleKeepsMode ==
    [][ToggleTheme =>
           /\ state'.mode = state.mode
           /\ state'.theme # state.theme
    ]_vars

\* C19: every change of the theme of the mounted provider comes with exactly
\* one onThemeChange call, whose arguments are the new theme and the mode the
\* provider state holds.
C19_ThemeChangeNotified ==
    [][(mounted /\ mounted' /\ state'.theme # state.theme) =>
           notified' = <<[theme |-> state'.theme, mode |-> state'.mode]>>
    ]_vars

\* C20: setMode('auto') sets mode to 'auto' and theme to the time-derived
\* state for the current minute and removes the stored preference; a mount
\* that follows starts from config.defaultMode.
C20_SetAutoClearsPreference ==
    [][/\ SetModeTo("auto") =>
              /\ state' = [mode |-> "auto", theme |-> ThemeNow]
              /\ storageStatus = "ok" => storage'[config.storageKey] = Null
       /\ (Mount /\ lastSelected = "auto") =>
              /\ state'.mode = config.defaultMode
              /\ state'.theme = calculateTheme(config.defaultMode, view',
                                               getCurrentMinutes).value
    ]_vars

\* remounted after setAuto: the mode is the default mode, nothing is stored
C20_Witness ==
    /\ mounted /\ ~cleanup.set
    /\ lastSelected = "auto"
    /\ storageStatus = "ok" /\ storage[config.storageKey] = Null
    /\ config.defaultMode = "dark"
    /\ state = [mode |-> "dark", theme |-> "dark"]

\* C21: after the provider unmounts no timer is pending and no
\* visibilitychange listener is registered, and no timer firing or visibility
\* event that follows changes state or the DOM attribute or calls
\* onThemeChange.
C21_UnmountCleansUp ==
    /\ [](~mounted => (timers = {} /\ listeners = {}))
    /\ [][(~mounted /\ (TimerFire \/ VisibilityChange)) =>
             (UNCHANGED <<state, dom>> /\ notified' = <<>>)]_vars

\* unmounted after the effects of a provider in auto mode had armed a timer
\* and registered the listener
C21_Witness ==
    /\ ~mounted
    /\ dom[config.applyTo] # Null
    /\ config.defaultMode = "auto" /\ storage[config.storageKey] = Null
    /\ lastSelected = "none"
    /\ timers = {} /\ listeners = {}

\* the time-derived state for the current minute under the configuration of
\* the latest render
ThemeOfView == getThemeFromTime(view.lightStart, view.darkStart, getCurrentMinutes).value

\* C22: in auto mode the theme is determined by the effective boundary pair
\* and the current minute: once the effects of the latest render have run
\* (also the render that follows a change of lightStart / darkStart), the
\* theme equals the time-derived state for the rendered configuration; the
\* clock stands still.
C22_ThemeFollowsConfig ==
    (Quiescent /\ state.mode = "auto") => state.theme = ThemeOfView

\* C23: every timer armed by the provider (by the effects of a render or by a
\* timer callback) has a delay of at least one minute and at most 24 hours: a
\* timer just armed is never due at once, so timer firings cannot repeat
\* while the clock minute stands.
C23_TimerDelayPositive ==
    [][(RunEffects \/ TimerFire) =>
           \A t \in timers' \ timers :
               /\ ~t.due
               /\ \E ms \in {getMsUntilNextBoundary(t.closure.lightStart,
                                   t.closure.darkStart, getCurrentMinutes)} :
                      /\ Min(ms.value, MaxDelayMs) >= MsPerMinute
                      /\ Min(ms.value, MaxDelayMs) <= MaxDelayMs
    ]_vars

\* C24: once the mount effect has run, the data-theme attribute of the
\* applyTo element equals the theme of the provider state after every
\* operation (setMode, timer firing, visibility event, render, effects), and
\* no other element gets the attribute.
C24_DomFollowsTheme ==
    (mounted /\ cleanup.set) =>
        /\ dom[config.applyTo] = state.theme
        /\ \A e \in ApplyTargets \ {config.applyTo} : dom[e] = Null

\* a step that is the call setMode(m): it leaves the render, the timers
\* and the clock alone
SetModeCall(m) ==
    /\ UNCHANGED <<mounted, view, timers, clock, lightStart, darkStart>>
    /\ SetModeTo(m)

\* C25: with storage available, every setMode / setLight / setDark / setAuto /
\* toggleTheme call leaves under storageKey the new mode when it is 'light' or
\* 'dark' and nothing when it is 'auto', and no other step of the mounted
\* provider (timer firing, visibility event, render, effects) changes the
\* mode or writes storage: the stored value keeps matching the mode.
C25_StorageFollowsMode ==
    [][storageStatus = "ok" =>
          /\ \A m \in Modes :
                 SetModeCall(m) =>
                     /\ state'.mode = m
                     /\ storage'[config.storageKey] =
                            IF m = "auto" THEN Null ELSE m
          /\ (mounted /\ mounted' /\ ~(\E m \in Modes : SetModeCall(m))) =>
                 /\ storage' = storage
                 /\ state'.mode = state.mode
    ]_vars

\* 'dark' was chosen and stored; a visibility event then changed the theme
\* and left the stored value alone
C25_Witness ==
    /\ mounted /\ storageStatus = "ok"
    /\ lastSelected = "dark"
    /\ state = [mode |-> "dark", theme |-> "light"]
    /\ storage[config.storageKey] = "dark"

\* C26: round trip: with storage available, for every storage key k and every
\* mode m, getStoredMode(k) after storeMode(m, k) returns m, and
\* getStoredMode(k) after clearStoredMode(k) returns null, whatever the
\* storage held before.
C26_StorageRoundTrip ==
    storageStatus = "ok" =>
        \A k \in StorageKeys :
            /\ \A m \in Modes :
                   getStoredMode(storeMode(storage, storageStatus, m, k).storage,
                                 storageStatus, k).value = m
            /\ getStoredMode(clearStoredMode(storage, storageStatus, k).storage,
                             storageStatus, k).value = Null

\* C27: on mount the initial mode is the value stored under storageKey when
\* storage is available and the value is exactly 'auto', 'light' or 'dark',
\* and config.defaultMode otherwise; the initial theme is the mode itself for
\* a manual mode and the time-derived state for 'auto'.
C27_InitialMode ==
    [][Mount =>
          /\ state'.mode =
                 IF storageStatus = "ok" /\ storage[config.storageKey] \in Modes
                 THEN storage[config.storageKey]
                 ELSE config.defaultMode
          /\ state'.theme =
                 IF state'.mode = "auto"
                 THEN getThemeFromTime(view'.lightStart, view'.darkStart,
                                       getCurrentMinutes).value
                 ELSE state'.mode
    ]_vars

\* a step that is the callback of a due timer: it leaves the render, the
\* listeners, the clock and the storage alone
TimerCallback ==
    /\ UNCHANGED <<mounted, view, effectsPending, listeners, clock, storage,
                   lightStart, darkStart>>
    /\ TimerFire

\* C28: a timer firing leaves state, DOM attribute and onThemeChange
\* untouched when the mode of the provider state is not 'auto' or when the
\* theme its callback derives from the time equals the current theme;
\* otherwise it changes the theme field to that theme, keeps the mode, writes
\* the attribute and calls onThemeChange once.
C28_TimerFireFrame ==
    [][TimerCallback =>
          \A t \in {x \in timers : x.due} :
          \E newTheme \in {getThemeFromTime(t.closure.lightStart,
                                t.closure.darkStart, getCurrentMinutes).value} :
              IF state.mode # "auto" \/ newTheme = state.theme
              THEN /\ UNCHANGED <<state, dom>>
                   /\ notified' = <<>>
              ELSE /\ state' = [mode |-> state.mode, theme |-> newTheme]
                   /\ dom' = [dom EXCEPT ![config.applyTo] = newTheme]
                   /\ notified' = <<[theme |-> newTheme, mode |-> "auto"]>>
    ]_vars

\* 'dark' was chosen while a timer of the auto render was pending; the timer
\* callback ran (handle 1 is given by a callback's re-arm), left state and
\* attribute alone and armed the next timer
C28_Witness ==
    /\ mounted /\ needRender /\ ~effectsPending
    /\ lastSelected = "dark"
    /\ state = [mode |-> "dark", theme |-> "dark"]
    /\ view.mode = "auto" /\ view.theme = "light"
    /\ dom[config.applyTo] = "dark"
    /\ notified = <<>>
    /\ timeoutRef = 1
    /\ \E t \in timers : t.id = 1 /\ ~t.due /\ t.closure.mode = "auto"

\* C29: onThemeChange is invoked only when the theme changes: a step of the
\* mounted provider that leaves the theme as it was (setLight while mode and
\* theme are 'light', a timer firing without a change) makes no call.
C29_NotifiedOnlyOnChange ==
    [][(mounted /\ mounted' /\ state'.theme = state.theme) =>
           notified' = <<>>
    ]_vars

Init == InitParse \/ InitBoundary

Next == NextParse \/ NextBoundary

Spec == Init /\ [][Next]_vars

====
